---- MODULE Spec2Model ----
(***************************************************************************)
(* Model of vllm/model_executor/model_loader.py: architecture resolution,  *)
(* the load-format and quantization gates, the default-dtype scope and the  *)
(* three weight-materialisation branches of get_model.                      *)
(*                                                                         *)
(* get_model is sequential code; each action below is one statement (or    *)
(* one call to a collaborator) of it, and pc is the position in the        *)
(* function.  A raised exception ends the call: pc = "done" with `error`   *)
(* set and nothing returned.                                               *)
(***************************************************************************)
EXTENDS Integers, Sequences, FiniteSets, TLC

VARIABLES
    device,         \* (major, minor) of the accelerator of this process
    default_dtype,  \* torch's process-wide default floating-point dtype
    pc,             \* position in get_model; "idle" between calls
    config,         \* model_config, the argument of the call
    quant_meta,     \* what the checkpoint holds for the requested scheme
    pre_dtype,      \* default_dtype when the call began
    old_dtype,      \* local of _set_default_torch_dtype
    model_class, quant_config, capability, model_func, model,
                    \* locals of get_model
    trace,          \* the checks and collaborator calls made so far, in order
    returned,       \* get_model returned `model`
    error           \* the exception that left get_model

env == <<device, config, quant_meta, pre_dtype>>

vars == <<device, default_dtype, pc, config, quant_meta, pre_dtype, old_dtype,
          model_class, quant_config, capability, model_func, model, trace,
          returned, error>>

-----------------------------------------------------------------------------
(* Bounds of the model *)

\* Longest candidate list (hf_config.architectures) that is enumerated.
MaxArchs == 2

-----------------------------------------------------------------------------
(* Module-level tables of model_loader.py *)

MODEL_REGISTRY ==
    [a \in {"AquilaModel", "AquilaForCausalLM", "BaiChuanForCausalLM",
            "BaichuanForCausalLM", "BloomForCausalLM", "FalconForCausalLM",
            "GPT2LMHeadModel", "GPTBigCodeForCausalLM", "GPTJForCausalLM",
            "GPTNeoXForCausalLM", "InternLMForCausalLM", "LlamaForCausalLM",
            "LLaMAForCausalLM", "MistralForCausalLM", "MptForCausalLM",
            "MPTForCausalLM", "OPTForCausalLM", "QWenLMHeadModel",
            "RWForCausalLM"} |->
        CASE a = "AquilaModel"          -> "AquilaForCausalLM"
          [] a = "LLaMAForCausalLM"     -> "LlamaForCausalLM"
          [] a = "MPTForCausalLM"       -> "MptForCausalLM"
          [] a = "RWForCausalLM"        -> "FalconForCausalLM"
          [] OTHER                      -> a]

MODEL_CLASSES_SUPPORT_QUANTIZATION == {"LlamaForCausalLM", "MistralForCausalLM"}

MODEL_CLASSES_SUPPORT_TENSORIZER == {"MistralForCausalLM"}

-----------------------------------------------------------------------------
(* Inputs: the ModelConfig handed to get_model and what the collaborators  *)
(* can answer.                                                             *)

\* Candidate names that are enumerated: registry keys of each capability
\* class (quantization only, quantization and tensorizer, neither), an alias,
\* and a name that is no registry key.
ArchNames == {"LlamaForCausalLM", "LLaMAForCausalLM", "MistralForCausalLM",
              "OPTForCausalLM", "UnknownModel"}

ArchLists == UNION {[1..n -> ArchNames] : n \in 0..MaxArchs}

\* hf_config: the attribute `architectures` is either missing or a list.
HfConfigs == {[has_architectures |-> FALSE, architectures |-> <<>>]}
             \cup {[has_architectures |-> TRUE, architectures |-> l] : l \in ArchLists}

Dtypes == {"float16", "bfloat16", "float32"}

LoadFormats == {"auto", "dummy", "tensorizer"}

\* model_config.quantization: "None" stands for Python's None.
Quantizations == {"None", "awq"}

\* The checkpoint location fields: one bundle, every field with a value of
\* its own so that arguments cannot be swapped unnoticed.
Locations ==
    {[model |-> "ckpt", download_dir |-> "/cache", revision |-> "main",
      tensorizer_path |-> "/m.tensors"]}

ModelConfigs ==
    {[hf_config |-> h, dtype |-> d, load_format |-> f, quantization |-> q,
      model |-> l.model, download_dir |-> l.download_dir,
      revision |-> l.revision, tensorizer_path |-> l.tensorizer_path] :
        h \in HfConfigs, d \in Dtypes, f \in LoadFormats,
        q \in Quantizations, l \in Locations}

\* torch.cuda.get_device_capability() answers
DeviceCapabilities == {<<7, 0>>, <<7, 5>>, <<8, 0>>}

\* quant_config = None
NoQuantConfig ==
    [method |-> "None", model |-> "None", download_dir |-> "None",
     min_capability |-> 0, supported_act_dtypes |-> {}]

\* What the checkpoint can hold for a requested scheme: nothing usable
\* (get_quant_config raises), or a minimum capability and a dtype list.
NoQuantMeta == [present |-> FALSE, min_capability |-> 0, supported_act_dtypes |-> {}]

QuantMetas ==
    {NoQuantMeta} \cup
    {[present |-> TRUE, min_capability |-> m, supported_act_dtypes |-> s] :
        m \in {75, 80}, s \in {{"float16"}, {"float16", "bfloat16"}}}

\* get_quant_config(quantization, model, download_dir) on such a checkpoint
get_quant_config(quantization, model_name, download_dir, meta) ==
    [method |-> quantization, model |-> model_name,
     download_dir |-> download_dir, min_capability |-> meta.min_capability,
     supported_act_dtypes |-> meta.supported_act_dtypes]

NoModel ==
    [constructed |-> FALSE, class |-> "None", args |-> <<>>,
     no_init |-> FALSE, on_cuda |-> FALSE,
     dummy_inits |-> 0, loads |-> 0, load_args |-> <<>>, training |-> TRUE]

\* model_func before line 105/107
NoModelFunc == [class |-> "None", args |-> <<>>]

NoError == [kind |-> "None", info |-> <<>>]

Raise(kind, info) == [kind |-> kind, info |-> info]

-----------------------------------------------------------------------------
(* _get_model_architecture *)

\* getattr(config, "architectures", [])
GetArchitectures(hf_config) ==
    IF hf_config.has_architectures THEN hf_config.architectures ELSE <<>>

\* The for loop from position i on: the first candidate that is a registry
\* key decides; running off the end is the raise after the loop.
RECURSIVE ScanArchitectures(_, _)
ScanArchitectures(architectures, i) ==
    IF i > Len(architectures)
    THEN [found |-> FALSE, class |-> "None"]
    ELSE IF architectures[i] \in DOMAIN MODEL_REGISTRY
         THEN [found |-> TRUE, class |-> MODEL_REGISTRY[architectures[i]]]
         ELSE ScanArchitectures(architectures, i + 1)

\* Variant: the scan keeps going and the last registered candidate decides.
RECURSIVE ScanArchitecturesLast(_, _)
ScanArchitecturesLast(architectures, i) ==
    IF i < 1
    THEN [found |-> FALSE, class |-> "None"]
    ELSE IF architectures[i] \in DOMAIN MODEL_REGISTRY
         THEN [found |-> TRUE, class |-> MODEL_REGISTRY[architectures[i]]]
         ELSE ScanArchitecturesLast(architectures, i - 1)

get_model_architecture_LastMatch(hf_config) ==
    ScanArchitecturesLast(GetArchitectures(hf_config),
                          Len(GetArchitectures(hf_config)))

get_model_architecture(hf_config) ==
    ScanArchitectures(GetArchitectures(hf_config), 1)

-----------------------------------------------------------------------------
(* The decisions of get_model *)

\* Variant: the tensorizer gate consults the quantization list.
TensorizerUnsupported_WrongList(load_format, class) ==
    load_format = "tensorizer"
    /\ class \notin MODEL_CLASSES_SUPPORT_QUANTIZATION

\* line 74: tensorizer requested for a class that does not support it
TensorizerUnsupported(load_format, class) ==
    load_format = "tensorizer" /\ class \notin MODEL_CLASSES_SUPPORT_TENSORIZER

\* Variant: the quantization block runs whether or not a scheme is given.
QuantizationRequested_Always(quantization) == TRUE

\* line 79
QuantizationRequested(quantization) == quantization # "None"

\* Variant: the membership test is inverted.
QuantizationUnsupported_Inverted(class) ==
    class \in MODEL_CLASSES_SUPPORT_QUANTIZATION

\* line 80
QuantizationUnsupported(class) ==
    class \notin MODEL_CLASSES_SUPPORT_QUANTIZATION

\* line 87: capability[0] * 10 + capability[1]
EncodeCapability(cap) == cap[1] * 10 + cap[2]

\* Variant: a capability equal to the minimum is rejected too.
CapabilityTooLow_Inclusive(cap, qc) == cap <= qc.min_capability

\* line 88
CapabilityTooLow(cap, qc) == cap < qc.min_capability

\* Variant: the membership test is inverted.
DtypeUnsupported_Inverted(dtype, supported_dtypes) == dtype \in supported_dtypes

\* line 95
DtypeUnsupported(dtype, supported_dtypes) == dtype \notin supported_dtypes

\* Variant: quant_config is bound only when there is one.
ModelFuncArgs_OnlyWithScheme(class, hf_config, qc) ==
    IF class \in MODEL_CLASSES_SUPPORT_QUANTIZATION /\ qc.method # "None"
    THEN <<hf_config, qc>>
    ELSE <<hf_config>>

\* lines 104-107: the arguments bound into model_func
ModelFuncArgs(class, hf_config, qc) ==
    IF class \in MODEL_CLASSES_SUPPORT_QUANTIZATION
    THEN <<hf_config, qc>>
    ELSE <<hf_config>>

\* line 109: construction goes through no_init_or_tensor
UsesNoInit(load_format) == load_format = "tensorizer"

\* Variant: the dummy format is not recognised.
IsDummy_Never(load_format) == FALSE

\* line 115
IsDummy(load_format) == load_format = "dummy"

\* Variant: load_format and revision change places.
LoadWeightsArgs_Swapped(cfg) ==
    <<cfg.model, cfg.download_dir, cfg.revision, cfg.load_format,
      cfg.tensorizer_path>>

\* lines 122-124: the positional arguments of model.load_weights
LoadWeightsArgs(cfg) ==
    <<cfg.model, cfg.download_dir, cfg.load_format, cfg.revision,
      cfg.tensorizer_path>>

-----------------------------------------------------------------------------
(* State after import: no call of get_model is in progress.  The process  *)
(* starts under torch's default (float32) or a default the caller set.    *)

\* Placeholder for the locals of get_model while no call is in progress.
NoConfig ==
    [hf_config |-> [has_architectures |-> FALSE, architectures |-> <<>>],
     dtype |-> "None", load_format |-> "None", quantization |-> "None",
     model |-> "None", download_dir |-> "None", revision |-> "None",
     tensorizer_path |-> "None"]

Init ==
    /\ device \in DeviceCapabilities
    /\ pc = "idle"
    /\ config = NoConfig
    /\ quant_meta = NoQuantMeta
    /\ default_dtype \in {"float32", "float16"}
    /\ pre_dtype = default_dtype
    /\ model_func = NoModelFunc
    /\ old_dtype = "None"
    /\ model_class = "None"
    /\ quant_config = NoQuantConfig
    /\ capability = 0
    /\ model = NoModel
    /\ trace = <<>>
    /\ returned = FALSE
    /\ error = NoError

\* line 71: the caller calls get_model(model_config)
Call ==
    /\ pc = "idle"
    /\ pc' = "start"
    /\ config' \in ModelConfigs
    /\ quant_meta' \in IF config'.quantization = "None" THEN {NoQuantMeta}
                                                        ELSE QuantMetas
    /\ pre_dtype' = default_dtype
    /\ UNCHANGED <<device, default_dtype, old_dtype, model_class,
                   quant_config, capability, model_func, model, trace,
                   returned, error>>

\* An exception leaves get_model: nothing is assigned any more.
Fail(step, kind, info) ==
    /\ pc' = "done"
    /\ error' = Raise(kind, info)
    /\ trace' = Append(trace, step)

Step(step, next) ==
    /\ pc' = next
    /\ trace' = Append(trace, step)
    /\ UNCHANGED error

\* line 72
ResolveArchitecture ==
    /\ pc = "start"
    /\ LET r == get_model_architecture(config.hf_config) IN
         IF r.found
         THEN /\ model_class' = r.class
              /\ Step("resolve", "check_tensorizer")
         ELSE /\ Fail("resolve", "UnsupportedArchitecture",
                      [architectures |-> GetArchitectures(config.hf_config),
                       supported |-> DOMAIN MODEL_REGISTRY])
              /\ UNCHANGED model_class
    /\ UNCHANGED <<env, model_func, default_dtype, old_dtype, quant_config,
                   capability, model, returned>>

\* lines 74-75
CheckTensorizer ==
    /\ pc = "check_tensorizer"
    /\ IF TensorizerUnsupported(config.load_format, model_class)
       THEN Fail("check_tensorizer", "UnsupportedLoadFormat",
                 [model_class |-> model_class])
       ELSE Step("check_tensorizer", "check_quantization")
    /\ UNCHANGED <<env, model_func, default_dtype, old_dtype, model_class,
                   quant_config, capability, model, returned>>

\* lines 78-82
CheckQuantization ==
    /\ pc = "check_quantization"
    /\ IF ~QuantizationRequested(config.quantization)
       THEN /\ pc' = "enter_dtype_scope"
            /\ UNCHANGED <<trace, error>>
       ELSE IF QuantizationUnsupported(model_class)
            THEN Fail("check_quantization", "UnsupportedQuantization",
                      [model_class |-> model_class])
            ELSE Step("check_quantization", "get_quant_config")
    /\ UNCHANGED <<env, model_func, default_dtype, old_dtype, model_class,
                   quant_config, capability, model, returned>>

\* lines 83-85: the loader returns a config or raises
GetQuantConfig ==
    /\ pc = "get_quant_config"
    /\ \/ /\ quant_meta.present
          /\ quant_config' = get_quant_config(config.quantization, config.model,
                                              config.download_dir, quant_meta)
          /\ Step("get_quant_config", "get_device_capability")
       \/ /\ ~quant_meta.present
          /\ Fail("get_quant_config", "CollaboratorFailure",
                  [step |-> "get_quant_config"])
          /\ UNCHANGED quant_config
    /\ UNCHANGED <<env, model_func, default_dtype, old_dtype, model_class,
                   capability, model, returned>>

\* lines 86-87
GetDeviceCapability ==
    /\ pc = "get_device_capability"
    /\ capability' = EncodeCapability(device)
    /\ Step("get_device_capability", "check_capability")
    /\ UNCHANGED <<env, model_func, default_dtype, old_dtype, model_class,
                   quant_config, model, returned>>

\* lines 88-93
CheckCapability ==
    /\ pc = "check_capability"
    /\ IF CapabilityTooLow(capability, quant_config)
       THEN Fail("check_capability", "IncompatibleAccelerator",
                 [quantization |-> config.quantization,
                  min_capability |-> quant_config.min_capability,
                  capability |-> capability])
       ELSE Step("check_capability", "check_dtype")
    /\ UNCHANGED <<env, model_func, default_dtype, old_dtype, model_class,
                   quant_config, capability, model, returned>>

\* lines 94-99
CheckDtype ==
    /\ pc = "check_dtype"
    /\ IF DtypeUnsupported(config.dtype, quant_config.supported_act_dtypes)
       THEN Fail("check_dtype", "UnsupportedDtype",
                 [dtype |-> config.dtype,
                  quantization |-> config.quantization,
                  supported_dtypes |-> quant_config.supported_act_dtypes])
       ELSE Step("check_dtype", "enter_dtype_scope")
    /\ UNCHANGED <<env, model_func, default_dtype, old_dtype, model_class,
                   quant_config, capability, model, returned>>

-----------------------------------------------------------------------------
(* _set_default_torch_dtype and the body of the with statement *)

\* lines 55-56: what the context manager does on entry
EnterScope(cur, dtype) == [old_dtype |-> cur, default_dtype |-> dtype]

\* line 58: the statement after the yield, run when the body ends normally
ExitScope(cur, old) == old

\* The body raised: contextlib throws the exception into the generator at the
\* yield (line 57).  The generator has no try/finally around the yield, so
\* line 58 is not executed and the exception leaves with the default dtype
\* as the body left it.
ExitScopeOnException(cur, old) == cur

\* An exception raised by a statement inside the with block.
FailInScope(step) ==
    /\ Fail(step, "CollaboratorFailure", [step |-> step])
    /\ default_dtype' = ExitScopeOnException(default_dtype, old_dtype)

\* lines 101-102
EnterDtypeScope ==
    /\ pc = "enter_dtype_scope"
    /\ LET e == EnterScope(default_dtype, config.dtype) IN
         /\ old_dtype' = e.old_dtype
         /\ default_dtype' = e.default_dtype
    /\ Step("set_default_dtype", "build_model_func")
    /\ UNCHANGED <<env, model_func, model_class, quant_config, capability,
                   model, returned>>

\* lines 104-107: model_func = partial(model_class, ...)
BuildModelFunc ==
    /\ pc = "build_model_func"
    /\ model_func' = [class |-> model_class,
                      args |-> ModelFuncArgs(model_class, config.hf_config,
                                             quant_config)]
    /\ pc' = "construct"
    /\ UNCHANGED <<env, default_dtype, old_dtype, model_class, quant_config,
                   capability, model, trace, returned, error>>

\* lines 109-112: model_func is called, inside no_init_or_tensor for the
\* tensorizer format; the constructor returns a model or raises
Construct ==
    /\ pc = "construct"
    /\ LET how == IF UsesNoInit(config.load_format)
                  THEN "construct_no_init" ELSE "construct" IN
         \/ /\ model' = [NoModel EXCEPT
                            !.constructed = TRUE,
                            !.class = model_func.class,
                            !.args = model_func.args,
                            !.no_init = UsesNoInit(config.load_format)]
            /\ Step(how, IF IsDummy(config.load_format) THEN "cuda_dummy"
                                                        ELSE "load_weights")
            /\ UNCHANGED default_dtype
         \/ /\ FailInScope(how)
            /\ UNCHANGED model
    /\ UNCHANGED <<env, model_func, old_dtype, model_class, quant_config,
                   capability, returned>>

\* line 116
CudaDummy ==
    /\ pc = "cuda_dummy"
    /\ \/ /\ model' = [model EXCEPT !.on_cuda = TRUE]
          /\ Step("cuda", "initialize_dummy_weights")
          /\ UNCHANGED default_dtype
       \/ /\ FailInScope("cuda")
          /\ UNCHANGED model
    /\ UNCHANGED <<env, model_func, old_dtype, model_class, quant_config,
                   capability, returned>>

\* line 119
InitializeDummyWeights ==
    /\ pc = "initialize_dummy_weights"
    /\ \/ /\ model' = [model EXCEPT !.dummy_inits = @ + 1]
          /\ Step("initialize_dummy_weights", "exit_dtype_scope")
          /\ UNCHANGED default_dtype
       \/ /\ FailInScope("initialize_dummy_weights")
          /\ UNCHANGED model
    /\ UNCHANGED <<env, model_func, old_dtype, model_class, quant_config,
                   capability, returned>>

\* lines 122-124
LoadWeights ==
    /\ pc = "load_weights"
    /\ \/ /\ model' = [model EXCEPT !.loads = @ + 1,
                                    !.load_args = LoadWeightsArgs(config)]
          /\ Step("load_weights", "cuda")
          /\ UNCHANGED default_dtype
       \/ /\ FailInScope("load_weights")
          /\ model' = [model EXCEPT !.load_args = LoadWeightsArgs(config)]
    /\ UNCHANGED <<env, model_func, old_dtype, model_class, quant_config,
                   capability, returned>>

\* line 125
Cuda ==
    /\ pc = "cuda"
    /\ \/ /\ model' = [model EXCEPT !.on_cuda = TRUE]
          /\ Step("cuda", "exit_dtype_scope")
          /\ UNCHANGED default_dtype
       \/ /\ FailInScope("cuda")
          /\ UNCHANGED model
    /\ UNCHANGED <<env, model_func, old_dtype, model_class, quant_config,
                   capability, returned>>

\* the with block ends normally: line 58
ExitDtypeScope ==
    /\ pc = "exit_dtype_scope"
    /\ default_dtype' = ExitScope(default_dtype, old_dtype)
    /\ Step("restore_default_dtype", "eval")
    /\ UNCHANGED <<env, model_func, old_dtype, model_class, quant_config,
                   capability, model, returned>>

\* line 126: return model.eval()
EvalAndReturn ==
    /\ pc = "eval"
    /\ \/ /\ model' = [model EXCEPT !.training = FALSE]
          /\ returned' = TRUE
          /\ Step("eval", "done")
       \/ /\ Fail("eval", "CollaboratorFailure", [step |-> "eval"])
          /\ UNCHANGED <<model, returned>>
    /\ UNCHANGED <<env, model_func, default_dtype, old_dtype, model_class,
                   quant_config, capability>>

\* The call is over (a model was returned or an exception left get_model):
\* its locals are gone, the process-wide default dtype stays as the call
\* left it.
Finish ==
    /\ pc = "done"
    /\ pc' = "idle"
    /\ config' = NoConfig
    /\ quant_meta' = NoQuantMeta
    /\ pre_dtype' = default_dtype
    /\ model_func' = NoModelFunc
    /\ old_dtype' = "None"
    /\ model_class' = "None"
    /\ quant_config' = NoQuantConfig
    /\ capability' = 0
    /\ model' = NoModel
    /\ trace' = <<>>
    /\ returned' = FALSE
    /\ error' = NoError
    /\ UNCHANGED <<device, default_dtype>>

Next ==
    \/ Call
    \/ ResolveArchitecture
    \/ CheckTensorizer
    \/ CheckQuantization
    \/ GetQuantConfig
    \/ GetDeviceCapability
    \/ CheckCapability
    \/ CheckDtype
    \/ EnterDtypeScope
    \/ BuildModelFunc
    \/ Construct
    \/ CudaDummy
    \/ InitializeDummyWeights
    \/ LoadWeights
    \/ Cuda
    \/ ExitDtypeScope
    \/ EvalAndReturn
    \/ Finish

Spec == Init /\ [][Next]_vars

-----------------------------------------------------------------------------
(* Vocabulary of the properties *)

Has(e) == \E i \in 1..Len(trace) : trace[i] = e

Pos(e) == CHOOSE i \in 1..Len(trace) : trace[i] = e

Before(a, b) == Has(a) /\ Has(b) /\ Pos(a) < Pos(b)

IsPrefix(s, t) == Len(s) <= Len(t) /\ \A i \in 1..Len(s) : s[i] = t[i]

Candidates ==
    IF config.hf_config.has_architectures THEN config.hf_config.architectures
                                          ELSE <<>>

Matches == {i \in 1..Len(Candidates) : Candidates[i] \in DOMAIN MODEL_REGISTRY}

FirstMatch == CHOOSE i \in Matches : \A j \in Matches : i <= j

Resolved == model_class # "None"

SchemeRequested == config.quantization # "None"

LoadFormatAllowed ==
    ~(config.load_format = "tensorizer"
      /\ model_class \notin MODEL_CLASSES_SUPPORT_TENSORIZER)

DeviceLevel == device[1] * 10 + device[2]

ConstructInvoked == Has("construct") \/ Has("construct_no_init")

ValidationErrors ==
    {"UnsupportedArchitecture", "UnsupportedLoadFormat",
     "UnsupportedQuantization", "IncompatibleAccelerator", "UnsupportedDtype"}

-----------------------------------------------------------------------------
(* C1 *)

\* C1: when a call of get_model is over, whether it returned a model or an
\* exception left it at any step, the process-wide default dtype equals its
\* value immediately before the call.
C1_DefaultDtypeRestored ==
    pc = "done" => default_dtype = pre_dtype

-----------------------------------------------------------------------------
(* C2 *)

\* C2 as stated: a resolved implementation outside the quantization-capable
\* set with a scheme requested fails with UnsupportedQuantization and no
\* other error, whatever the other configuration fields are.
C2_AlwaysUnsupportedQuantization ==
    (pc = "done" /\ Resolved /\ SchemeRequested
       /\ model_class \notin MODEL_CLASSES_SUPPORT_QUANTIZATION)
    => error.kind = "UnsupportedQuantization"

\* C2 amended: a resolved implementation outside the quantization-capable
\* set with a scheme requested fails with UnsupportedQuantization naming the
\* implementation, whatever the dtype, the accelerator and the checkpoint
\* are, provided the load-format check passes; when it does not, the call
\* has failed with UnsupportedLoadFormat before.
C2_UnsupportedQuantizationAfterLoadFormat ==
    (pc = "done" /\ Resolved /\ SchemeRequested
       /\ model_class \notin MODEL_CLASSES_SUPPORT_QUANTIZATION)
    => IF LoadFormatAllowed
       THEN /\ error.kind = "UnsupportedQuantization"
            /\ error.info.model_class = model_class
            /\ ~returned
       ELSE error.kind = "UnsupportedLoadFormat"

C2_Witness ==
    /\ pc = "done"
    /\ model_class = "OPTForCausalLM"
    /\ config.quantization = "awq"
    /\ config.load_format = "dummy"
    /\ config.dtype = "bfloat16"
    /\ error.kind = "UnsupportedQuantization"

-----------------------------------------------------------------------------
(* C3 *)

\* C3: once resolution has run, the class is the registry entry of the
\* lowest-index candidate that is a registry key, and the call has failed
\* with UnsupportedArchitecture, carrying the candidates and all registered
\* names, if and only if no candidate is a registry key.
C3_FirstMatchWins ==
    pc \notin {"idle", "start"} =>
        IF Matches = {}
        THEN /\ pc = "done"
             /\ error.kind = "UnsupportedArchitecture"
             /\ error.info.architectures = Candidates
             /\ error.info.supported = DOMAIN MODEL_REGISTRY
             /\ Cardinality(error.info.supported) = 19
             /\ ~Resolved
        ELSE /\ model_class = MODEL_REGISTRY[Candidates[FirstMatch]]
             /\ error.kind # "UnsupportedArchitecture"

\* two registered candidates of different classes: the first one decided
C3_Witness ==
    /\ pc = "check_tensorizer"
    /\ Candidates = <<"OPTForCausalLM", "MistralForCausalLM">>
    /\ model_class = "OPTForCausalLM"

-----------------------------------------------------------------------------
(* C4 *)

\* C4 as stated: for a quantization-capable implementation with a scheme
\* requested (whose checkpoint declares a minimum), a capability below the
\* minimum means IncompatibleAccelerator and no dtype check, a capability at
\* or above it means the dtype check is reached.
C4_CapabilityAloneDecides ==
    (pc = "done" /\ SchemeRequested /\ quant_meta.present
       /\ model_class \in MODEL_CLASSES_SUPPORT_QUANTIZATION)
    => IF DeviceLevel < quant_meta.min_capability
       THEN error.kind = "IncompatibleAccelerator" /\ ~Has("check_dtype")
       ELSE Has("check_dtype")

\* C4 amended: the same, once the accelerator gate is reached, that is when
\* the load-format check has passed and the quantization config has been
\* loaded; the capability compared is major*10+minor.
C4_CapabilityGate ==
    (pc = "done" /\ SchemeRequested /\ quant_meta.present
       /\ model_class \in MODEL_CLASSES_SUPPORT_QUANTIZATION
       /\ LoadFormatAllowed)
    => /\ Has("check_capability")
       /\ capability = DeviceLevel
       /\ quant_config.min_capability = quant_meta.min_capability
       /\ IF DeviceLevel < quant_meta.min_capability
          THEN /\ error.kind = "IncompatibleAccelerator"
               /\ error.info.min_capability = quant_meta.min_capability
               /\ error.info.capability = DeviceLevel
               /\ ~Has("check_dtype")
               /\ ~returned
          ELSE /\ Before("check_capability", "check_dtype")
               /\ error.kind # "IncompatibleAccelerator"

\* the capability equals the minimum and the dtype check was reached
C4_Witness ==
    /\ pc = "done"
    /\ SchemeRequested
    /\ model_class \in MODEL_CLASSES_SUPPORT_QUANTIZATION
    /\ capability = 75
    /\ quant_config.min_capability = 75
    /\ Has("check_dtype")

-----------------------------------------------------------------------------
(* C5 *)

AcceleratorGatePassed ==
    /\ Resolved
    /\ SchemeRequested
    /\ model_class \in MODEL_CLASSES_SUPPORT_QUANTIZATION
    /\ LoadFormatAllowed
    /\ quant_meta.present
    /\ DeviceLevel >= quant_meta.min_capability

\* C5: with the accelerator gate passed, a dtype outside the scheme's
\* supported set means UnsupportedDtype and no construction; a dtype in the
\* set means the constructor is invoked with the resolved quantization config.
C5_DtypeGate ==
    (pc = "done" /\ AcceleratorGatePassed)
    => IF config.dtype \notin quant_meta.supported_act_dtypes
       THEN /\ error.kind = "UnsupportedDtype"
            /\ error.info.dtype = config.dtype
            /\ error.info.supported_dtypes = quant_meta.supported_act_dtypes
            /\ ~ConstructInvoked
            /\ model_func = NoModelFunc
            /\ ~model.constructed
            /\ ~returned
       ELSE /\ ConstructInvoked
            /\ error.kind # "UnsupportedDtype"
            /\ model_func.class = model_class
            /\ model_func.args = <<config.hf_config, quant_config>>
            /\ quant_config.method = config.quantization
            /\ quant_config.supported_act_dtypes = quant_meta.supported_act_dtypes

\* requested bfloat16, the scheme supports float16 only
C5_Witness ==
    /\ pc = "done"
    /\ AcceleratorGatePassed
    /\ config.dtype = "bfloat16"
    /\ quant_config.supported_act_dtypes = {"float16"}
    /\ error.kind = "UnsupportedDtype"

-----------------------------------------------------------------------------
(* C6 *)

\* C6: construction under no_init_or_tensor and a tensorizer weight load
\* happen only for a class of the tensorizer-capable set; a tensorizer load
\* of a class outside it fails with UnsupportedLoadFormat right after
\* resolution, before any quantization check, dtype override or
\* construction; and the constructor runs under no_init_or_tensor exactly
\* when the load format is tensorizer.
C6_DeferredAllocationOnlyWhenSupported ==
    /\ Has("construct_no_init")
         => model_class \in MODEL_CLASSES_SUPPORT_TENSORIZER
    /\ (Has("load_weights") /\ config.load_format = "tensorizer")
         => model_class \in MODEL_CLASSES_SUPPORT_TENSORIZER
    /\ (pc = "done" /\ Resolved /\ ~LoadFormatAllowed)
         => /\ error.kind = "UnsupportedLoadFormat"
            /\ error.info.model_class = model_class
            /\ trace = <<"resolve", "check_tensorizer">>
            /\ quant_config = NoQuantConfig
            /\ default_dtype = pre_dtype
            /\ old_dtype = "None"
            /\ model_func = NoModelFunc
            /\ ~model.constructed
            /\ ~returned
    /\ Has("construct_no_init") => config.load_format = "tensorizer"
    /\ Has("construct") => config.load_format # "tensorizer"
    /\ model.constructed
         => (model.no_init <=> config.load_format = "tensorizer")

\* a tensorizer load of a supporting class got as far as a constructed model
C6_Witness ==
    /\ config.load_format = "tensorizer"
    /\ model_class = "MistralForCausalLM"
    /\ Has("construct_no_init")
    /\ model.constructed
    /\ model.no_init
    /\ model.loads = 1

-----------------------------------------------------------------------------
(* C7 *)

\* C7: a returned model is constructed, has had exactly one of the two
\* weight strategies completed on it (dummy initialisation exactly when the
\* format is dummy, load_weights otherwise), is on the accelerator and in
\* inference mode, and eval was the last step; a call that raised returned
\* nothing, and a finished call either returned or raised.
C7_NoPartialSuccess ==
    /\ returned
         => /\ pc = "done"
            /\ error.kind = "None"
            /\ model.constructed
            /\ model.dummy_inits + model.loads = 1
            /\ (model.dummy_inits = 1 <=> config.load_format = "dummy")
            /\ model.on_cuda
            /\ ~model.training
            /\ trace[Len(trace)] = "eval"
            /\ Before("cuda", "eval")
    /\ error.kind # "None" => (~returned /\ pc = "done")
    /\ pc = "done" => (returned <=> error.kind = "None")

C7_Witness ==
    /\ returned
    /\ config.load_format = "dummy"
    /\ model.dummy_inits = 1
    /\ model.on_cuda
    /\ ~model.training

-----------------------------------------------------------------------------
(* C8 *)

\* C8 as stated: model_func carries a quantization-config argument next to
\* hf_config if and only if the class supports quantization and a scheme was
\* requested.
C8_QuantArgOnlyWhenRequested ==
    model_func.class # "None"
    => (Len(model_func.args) = 2
          <=> (model_class \in MODEL_CLASSES_SUPPORT_QUANTIZATION
               /\ SchemeRequested))

\* C8 amended: model_func carries a second argument if and only if the class
\* supports quantization; that argument is the config that passed all gates
\* when a scheme was requested and None when none was requested.  A class
\* without quantization support is built from hf_config alone, and never
\* with a scheme requested.
C8_QuantArgForQuantizationClasses ==
    model_func.class # "None"
    => /\ model_func.class = model_class
       /\ model_func.args[1] = config.hf_config
       /\ Len(model_func.args) = 2
            <=> model_class \in MODEL_CLASSES_SUPPORT_QUANTIZATION
       /\ model_class \notin MODEL_CLASSES_SUPPORT_QUANTIZATION
            => (Len(model_func.args) = 1 /\ ~SchemeRequested)
       /\ Len(model_func.args) = 2
            => /\ model_func.args[2] = quant_config
               /\ model_func.args[2].method = config.quantization
               /\ SchemeRequested
                    => /\ quant_meta.present
                       /\ model_func.args[2].min_capability
                            = quant_meta.min_capability
                       /\ model_func.args[2].supported_act_dtypes
                            = quant_meta.supported_act_dtypes
                       /\ DeviceLevel >= model_func.args[2].min_capability
                       /\ config.dtype
                            \in model_func.args[2].supported_act_dtypes
       /\ model.constructed => model.args = model_func.args

\* a quantization-capable class, no scheme requested: constructed with
\* (hf_config, None)
C8_Witness ==
    /\ model.constructed
    /\ model_class = "LlamaForCausalLM"
    /\ ~SchemeRequested
    /\ Len(model.args) = 2
    /\ model.args[2] = NoQuantConfig

-----------------------------------------------------------------------------
(* C9 *)

\* C9: in the dummy branch the move to the accelerator precedes the dummy
\* initialisation and load_weights is never invoked; in the other branches
\* load_weights is invoked with (model, download_dir, load_format, revision,
\* tensorizer_path) before the move to the accelerator and the dummy
\* initialisation is never invoked.
C9_MaterialisationOrder ==
    pc # "idle" =>
        IF config.load_format = "dummy"
        THEN /\ ~Has("load_weights")
             /\ model.loads = 0
             /\ Has("initialize_dummy_weights")
                  => (Before("cuda", "initialize_dummy_weights")
                      /\ model.on_cuda)
             /\ returned => Has("initialize_dummy_weights")
        ELSE /\ ~Has("initialize_dummy_weights")
             /\ model.dummy_inits = 0
             /\ Has("cuda") => (Before("load_weights", "cuda")
                                /\ model.loads = 1)
             /\ Has("load_weights")
                  => model.load_args
                       = <<config.model, config.download_dir,
                           config.load_format, config.revision,
                           config.tensorizer_path>>
             /\ returned => Has("load_weights")

C9_Witness ==
    /\ returned
    /\ config.load_format = "auto"
    /\ Before("load_weights", "cuda")
    /\ model.load_args = <<"ckpt", "/cache", "auto", "main", "/m.tensors">>

-----------------------------------------------------------------------------
(* C10 *)

\* The steps of a load of the current configuration, in the fixed order.
ExpectedSteps ==
    <<"resolve", "check_tensorizer">>
    \o (IF SchemeRequested
        THEN <<"check_quantization", "get_quant_config",
               "get_device_capability", "check_capability", "check_dtype">>
        ELSE <<>>)
    \o <<"set_default_dtype">>
    \o (IF config.load_format = "tensorizer" THEN <<"construct_no_init">>
                                             ELSE <<"construct">>)
    \o (IF config.load_format = "dummy"
        THEN <<"cuda", "initialize_dummy_weights">>
        ELSE <<"load_weights", "cuda">>)
    \o <<"restore_default_dtype", "eval">>

\* C10: the steps run in the fixed order resolve, load-format check,
\* quantization validation (only with a scheme), dtype override, construct,
\* materialise, finalise; a load that failed a validation gate has not
\* changed the default dtype, built or constructed a model or touched
\* weights; the dtype override happens only after every applicable gate
\* passed; without a scheme neither the quantization-config loader nor the
\* capability query is invoked.
C10_StepOrder ==
    pc # "idle" =>
        /\ IsPrefix(trace, ExpectedSteps)
        /\ error.kind \in ValidationErrors
             => /\ default_dtype = pre_dtype
                /\ old_dtype = "None"
                /\ ~Has("set_default_dtype")
                /\ model_func = NoModelFunc
                /\ ~ConstructInvoked
                /\ ~model.constructed
                /\ ~Has("load_weights")
                /\ ~Has("initialize_dummy_weights")
                /\ ~Has("cuda")
                /\ ~returned
        /\ Has("set_default_dtype")
             => /\ Matches # {}
                /\ LoadFormatAllowed
                /\ SchemeRequested
                     => /\ model_class \in MODEL_CLASSES_SUPPORT_QUANTIZATION
                        /\ quant_meta.present
                        /\ DeviceLevel >= quant_meta.min_capability
                        /\ config.dtype \in quant_meta.supported_act_dtypes
        /\ ~SchemeRequested
             => /\ ~Has("get_quant_config")
                /\ ~Has("get_device_capability")
                /\ quant_config = NoQuantConfig

\* the dtype gate failed under a default dtype other than the requested one
C10_Witness ==
    /\ pc = "done"
    /\ error.kind = "UnsupportedDtype"
    /\ config.dtype # pre_dtype
    /\ default_dtype = pre_dtype
    /\ Len(trace) = 7

====
